---- MODULE Spec2Model ----
(***************************************************************************)
(* Blood-gas interpretation engine (shared/blood-gas-calculations.ts).     *)
(*                                                                         *)
(* Numbers are fixed-point integers.  pH is held in hundredths (7.35 is    *)
(* 735).  Every other input (pCO2, HCO3, Na, Cl, albumin, osmolality,      *)
(* glucose, urea, ethanol) is held in tenths (45 mmHg is 450).  Quantities *)
(* derived with the factors 1.5, 2.5, 0.7 and 1/2.5 are held in hundredths *)
(* (an anion gap of 16 is 1600), so that every product of the source is an *)
(* exact integer.  An optional value is a sequence of length 0 (undefined) *)
(* or 1.  The display strings of the results (formula, rule,               *)
(* expectedChange, ...) carry no decision and are left out.                *)
(*                                                                         *)
(* The wizard of client/src/components/blood-gas/wizard-context.tsx holds  *)
(* a BloodGasInput and a step number and interprets its input on every     *)
(* render; it is the second part of the module.                            *)
(***************************************************************************)
EXTENDS Integers, Sequences, FiniteSets, TLC

VARIABLES input, call, args, ret, currentStep, interpretation, firstCall

vars == <<input, call, args, ret, currentStep, interpretation, firstCall>>

\* what the engine functions never touch: the step and the rendered
\* interpretation of the wizard, and the record of its first interpretation
wizard == <<currentStep, interpretation, firstCall>>

\* ------------------------------------------------------------------ options
undefined == <<>>

Some(x) == <<x>>

Val(o) == o[1]

Opt(S) == {undefined} \cup {Some(x) : x \in S}

\* --------------------------------------------------------- reference tables
\* normalRanges of shared/schema.ts, pH in hundredths, gases in tenths
normalRanges ==
  [pH   |-> [low |-> 735, high |-> 745],
   pCO2 |-> [low |-> 350, high |-> 450],
   HCO3 |-> [low |-> 220, high |-> 260]]

\* ------------------------------------------------------------ pH classifier
\* variant: the 7.35 boundary counted as acidaemia
determinepHStatus_inclusive(pH) ==
  IF pH <= 735 THEN "acidaemia"
  ELSE IF pH > 745 THEN "alkalaemia"
  ELSE "normal"

determinepHStatus(pH) ==
  IF pH < 735 THEN "acidaemia"
  ELSE IF pH > 745 THEN "alkalaemia"
  ELSE "normal"

\* ---------------------------------------------------------------- anion gap
\* variant: the albumin correction applied whenever albumin is supplied
calculateAnionGap_anyAlbumin(Na, Cl, HCO3, albumin) ==
  LET rawAG == 10 * (Na - (Cl + HCO3))
      correctedAG ==
        IF albumin # undefined
        THEN rawAG + 25 * (40 - Val(albumin))
        ELSE rawAG
      status ==
        IF correctedAG > 1600 THEN "high"
        ELSE IF correctedAG < 300 THEN "low_negative"
        ELSE "normal"
  IN [value |-> rawAG, correctedValue |-> correctedAG, status |-> status]

\* variant: the status decided on the raw gap
calculateAnionGap_rawStatus(Na, Cl, HCO3, albumin) ==
  LET rawAG == 10 * (Na - (Cl + HCO3))
      correctedAG ==
        IF albumin # undefined /\ Val(albumin) < 40
        THEN rawAG + 25 * (40 - Val(albumin))
        ELSE rawAG
      status ==
        IF rawAG > 1600 THEN "high"
        ELSE IF rawAG < 300 THEN "low_negative"
        ELSE "normal"
  IN [value |-> rawAG, correctedValue |-> correctedAG, status |-> status]

\* Na, Cl, HCO3 in tenths, albumin an optional value in tenths;
\* value and correctedValue in hundredths
calculateAnionGap(Na, Cl, HCO3, albumin) ==
  LET rawAG == 10 * (Na - (Cl + HCO3))
      correctedAG ==
        IF albumin # undefined /\ Val(albumin) < 40
        THEN rawAG + 25 * (40 - Val(albumin))
        ELSE rawAG
      status ==
        IF correctedAG > 1600 THEN "high"
        ELSE IF correctedAG < 300 THEN "low_negative"
        ELSE "normal"
  IN [value |-> rawAG, correctedValue |-> correctedAG, status |-> status]

\* -------------------------------------------------------------- osmolar gap
\* variant: ethanol converted once more (divided by 4.6) before it is added
calculateOsmolarGap_ethanolDivided(measuredOsmolality, Na, glucose, urea, ethanol) ==
  LET base == 2 * Na + glucose + urea
      calculatedOsm ==
        IF ethanol # undefined /\ Val(ethanol) # 0 /\ Val(ethanol) > 0
        THEN base + (10 * Val(ethanol)) \div 46
        ELSE base
      gap == measuredOsmolality - calculatedOsm
  IN [calculatedOsmolality |-> calculatedOsm,
      measuredOsmolality   |-> measuredOsmolality,
      gap                  |-> gap,
      isElevated           |-> gap > 100]

\* all arguments in tenths, ethanol optional; results in tenths
calculateOsmolarGap(measuredOsmolality, Na, glucose, urea, ethanol) ==
  LET base == 2 * Na + glucose + urea
      calculatedOsm ==
        IF ethanol # undefined /\ Val(ethanol) # 0 /\ Val(ethanol) > 0
        THEN base + Val(ethanol)
        ELSE base
      gap == measuredOsmolality - calculatedOsm
  IN [calculatedOsmolality |-> calculatedOsm,
      measuredOsmolality   |-> measuredOsmolality,
      gap                  |-> gap,
      isElevated           |-> gap > 100]

\* --------------------------------------------------------- Winter's formula
\* HCO3, actualPCO2 in tenths; the expected band in hundredths
calculateWintersFormula(HCO3, actualPCO2) ==
  LET expectedPCO2 == 15 * HCO3 + 800
      expectedLow  == expectedPCO2 - 200
      expectedHigh == expectedPCO2 + 200
      actual       == 10 * actualPCO2
      status ==
        IF actual >= expectedLow /\ actual <= expectedHigh THEN "appropriate"
        ELSE IF actual < expectedLow THEN "excessive"
        ELSE IF actual >= 4500 /\ actual < expectedHigh THEN "inadequate"
        ELSE "mixed_disorder"
  IN [expectedPCO2Low  |-> expectedLow,
      expectedPCO2High |-> expectedHigh,
      actualPCO2       |-> actualPCO2,
      status           |-> status]

\* -------------------------------------------------------------- delta ratio
\* variant: a ratio of exactly 0.8 counted as mixed NAGMA and HAGMA
calculateDeltaRatio_mixedUpTo08(anionGap, HCO3) ==
  LET deltaAG   == anionGap - 1200
      deltaHCO3 == 10 * (240 - HCO3)
      num == IF deltaHCO3 < 0 THEN 0 - deltaAG ELSE deltaAG
      den == IF deltaHCO3 < 0 THEN 0 - deltaHCO3 ELSE deltaHCO3
      status ==
        IF 10 * num < 4 * den THEN "pure_nagma_hagma"
        ELSE IF 10 * num >= 4 * den /\ 10 * num <= 8 * den THEN "mixed_nagma_hagma"
        ELSE IF 10 * num >= 8 * den /\ num <= 2 * den THEN "hagma"
        ELSE "hagma_metabolic_alkalosis"
  IN IF deltaHCO3 = 0
     THEN [value |-> [num |-> 0, den |-> 1], status |-> "hagma"]
     ELSE [value |-> [num |-> num, den |-> den], status |-> status]

\* variant: no test for deltaHCO3 = 0; the division then gives -Infinity
\* (below 0.4), or Infinity or NaN (no comparison true but the last else)
calculateDeltaRatio_noZeroTest(anionGap, HCO3) ==
  LET deltaAG   == anionGap - 1200
      deltaHCO3 == 10 * (240 - HCO3)
      num == IF deltaHCO3 < 0 THEN 0 - deltaAG ELSE deltaAG
      den == IF deltaHCO3 < 0 THEN 0 - deltaHCO3 ELSE deltaHCO3
      status ==
        IF den = 0
        THEN IF num < 0 THEN "pure_nagma_hagma" ELSE "hagma_metabolic_alkalosis"
        ELSE IF 10 * num < 4 * den THEN "pure_nagma_hagma"
        ELSE IF 10 * num >= 4 * den /\ 10 * num < 8 * den THEN "mixed_nagma_hagma"
        ELSE IF 10 * num >= 8 * den /\ num <= 2 * den THEN "hagma"
        ELSE "hagma_metabolic_alkalosis"
  IN [value |-> [num |-> num, den |-> den], status |-> status]

\* anionGap in hundredths, HCO3 in tenths.  The ratio deltaAG / deltaHCO3 is
\* kept as the fraction num/den with den > 0 (both in hundredths); the
\* thresholds 0.4, 0.8 and 2.0 are compared by cross-multiplication.
calculateDeltaRatio(anionGap, HCO3) ==
  LET deltaAG   == anionGap - 1200
      deltaHCO3 == 10 * (240 - HCO3)
      num == IF deltaHCO3 < 0 THEN 0 - deltaAG ELSE deltaAG
      den == IF deltaHCO3 < 0 THEN 0 - deltaHCO3 ELSE deltaHCO3
      status ==
        IF 10 * num < 4 * den THEN "pure_nagma_hagma"
        ELSE IF 10 * num >= 4 * den /\ 10 * num < 8 * den THEN "mixed_nagma_hagma"
        ELSE IF 10 * num >= 8 * den /\ num <= 2 * den THEN "hagma"
        ELSE "hagma_metabolic_alkalosis"
  IN IF deltaHCO3 = 0
     THEN [value |-> [num |-> 0, den |-> 1], status |-> "hagma"]
     ELSE [value |-> [num |-> num, den |-> den], status |-> status]

\* ------------------------------------------------- respiratory compensation
\* variant: an HCO3 of exactly 22 counted as a metabolic acidosis
calculateRespiratoryCompensation_strict22(disorder, pCO2, HCO3) ==
  LET actual == 10 * HCO3
  IN IF disorder = "respiratory_acidosis"
     THEN LET expectedHCO3 == 2400 + 4 * (pCO2 - 400)
              chronicLow   == expectedHCO3 - 200
              chronicHigh  == expectedHCO3 + 200
          IN IF actual >= chronicLow /\ actual <= chronicHigh
             THEN [status |-> "appropriate", chronicity |-> "chronic"]
             ELSE IF actual > chronicHigh
             THEN [status |-> "excessive", chronicity |-> "chronic"]
             ELSE IF actual > 2200 /\ actual < chronicLow
             THEN [status |-> "inadequate", chronicity |-> "acute"]
             ELSE [status |-> "mixed_disorder", chronicity |-> "acute"]
     ELSE LET expectedHCO3 == 2400 - 5 * (400 - pCO2)
              chronicLow   == expectedHCO3 - 200
              chronicHigh  == expectedHCO3 + 200
          IN IF actual >= chronicLow /\ actual <= chronicHigh
             THEN [status |-> "appropriate", chronicity |-> "chronic"]
             ELSE IF actual < chronicLow
             THEN [status |-> "excessive", chronicity |-> "chronic"]
             ELSE IF actual >= 2600 /\ actual < chronicHigh
             THEN [status |-> "inadequate", chronicity |-> "acute"]
             ELSE [status |-> "mixed_disorder", chronicity |-> "acute"]

\* pCO2, HCO3 in tenths; expected HCO3 in hundredths
calculateRespiratoryCompensation(disorder, pCO2, HCO3) ==
  LET actual == 10 * HCO3
  IN IF disorder = "respiratory_acidosis"
     THEN LET expectedHCO3 == 2400 + 4 * (pCO2 - 400)
              chronicLow   == expectedHCO3 - 200
              chronicHigh  == expectedHCO3 + 200
          IN IF actual >= chronicLow /\ actual <= chronicHigh
             THEN [status |-> "appropriate", chronicity |-> "chronic"]
             ELSE IF actual > chronicHigh
             THEN [status |-> "excessive", chronicity |-> "chronic"]
             ELSE IF actual >= 2200 /\ actual < chronicLow
             THEN [status |-> "inadequate", chronicity |-> "acute"]
             ELSE [status |-> "mixed_disorder", chronicity |-> "acute"]
     ELSE LET expectedHCO3 == 2400 - 5 * (400 - pCO2)
              chronicLow   == expectedHCO3 - 200
              chronicHigh  == expectedHCO3 + 200
          IN IF actual >= chronicLow /\ actual <= chronicHigh
             THEN [status |-> "appropriate", chronicity |-> "chronic"]
             ELSE IF actual < chronicLow
             THEN [status |-> "excessive", chronicity |-> "chronic"]
             ELSE IF actual >= 2600 /\ actual < chronicHigh
             THEN [status |-> "inadequate", chronicity |-> "acute"]
             ELSE [status |-> "mixed_disorder", chronicity |-> "acute"]

\* ----------------------------------------- metabolic alkalosis compensation
\* variant: a pCO2 of exactly 35 counted as a respiratory alkalosis
calculateMetabolicAlkalosisCompensation_strict35(HCO3, actualPCO2) ==
  LET expectedPCO2 == 7 * HCO3 + 2000
      expectedLow  == expectedPCO2 - 500
      expectedHigh == expectedPCO2 + 500
      actual       == 10 * actualPCO2
      status ==
        IF actual >= expectedLow /\ actual <= expectedHigh THEN "appropriate"
        ELSE IF actual > expectedHigh THEN "excessive"
        ELSE IF actual > 3500 /\ actual < expectedLow THEN "inadequate"
        ELSE "mixed_disorder"
  IN [status |-> status, chronicity |-> "unknown"]

\* HCO3, actualPCO2 in tenths; the expected band in hundredths
calculateMetabolicAlkalosisCompensation(HCO3, actualPCO2) ==
  LET expectedPCO2 == 7 * HCO3 + 2000
      expectedLow  == expectedPCO2 - 500
      expectedHigh == expectedPCO2 + 500
      actual       == 10 * actualPCO2
      status ==
        IF actual >= expectedLow /\ actual <= expectedHigh THEN "appropriate"
        ELSE IF actual > expectedHigh THEN "excessive"
        ELSE IF actual >= 3500 /\ actual < expectedLow THEN "inadequate"
        ELSE "mixed_disorder"
  IN [status |-> status, chronicity |-> "unknown"]

\* ------------------------------------------------ primary disorder classifier
\* pH in hundredths, pCO2 and HCO3 in tenths.  The fractional deviations
\* (pCO2 - 40)/40 and (24 - HCO3)/24 are compared by cross-multiplication.
\* variant: the upper pH bound excluded
isStrictNormal_exclusive(pH, pCO2, HCO3) ==
  /\ pH >= normalRanges.pH.low
  /\ pH < normalRanges.pH.high
  /\ pCO2 >= normalRanges.pCO2.low
  /\ pCO2 <= normalRanges.pCO2.high
  /\ HCO3 >= normalRanges.HCO3.low
  /\ HCO3 <= normalRanges.HCO3.high

isStrictNormal(pH, pCO2, HCO3) ==
  /\ pH >= normalRanges.pH.low
  /\ pH <= normalRanges.pH.high
  /\ pCO2 >= normalRanges.pCO2.low
  /\ pCO2 <= normalRanges.pCO2.high
  /\ HCO3 >= normalRanges.HCO3.low
  /\ HCO3 <= normalRanges.HCO3.high

\* variant: the pH status taken as it is, a normal pH never refined
effectiveStatus_pHOnly(pH, pCO2, HCO3) ==
  determinepHStatus(pH)

\* variant: at pH 7.40 the metabolic component looked at first
effectiveStatus_metabolicFirst(pH, pCO2, HCO3) ==
  LET phStatus == determinepHStatus(pH)
  IN IF phStatus = "normal"
     THEN IF pH < 740 THEN "acidaemia"
          ELSE IF pH > 740 THEN "alkalaemia"
          ELSE IF HCO3 < normalRanges.HCO3.low THEN "acidaemia"
          ELSE IF HCO3 > normalRanges.HCO3.high THEN "alkalaemia"
          ELSE IF pCO2 > normalRanges.pCO2.high THEN "acidaemia"
          ELSE IF pCO2 < normalRanges.pCO2.low THEN "alkalaemia"
          ELSE phStatus
     ELSE phStatus

\* variant: at pH 7.40 the status left as it is, no component looked at
effectiveStatus_noTieBreak(pH, pCO2, HCO3) ==
  LET phStatus == determinepHStatus(pH)
  IN IF phStatus = "normal"
     THEN IF pH < 740 THEN "acidaemia"
          ELSE IF pH > 740 THEN "alkalaemia"
          ELSE phStatus
     ELSE phStatus

effectiveStatus(pH, pCO2, HCO3) ==
  LET phStatus == determinepHStatus(pH)
  IN IF phStatus = "normal"
     THEN IF pH < 740 THEN "acidaemia"
          ELSE IF pH > 740 THEN "alkalaemia"
          ELSE IF pCO2 > normalRanges.pCO2.high THEN "acidaemia"
          ELSE IF pCO2 < normalRanges.pCO2.low THEN "alkalaemia"
          ELSE IF HCO3 < normalRanges.HCO3.low THEN "acidaemia"
          ELSE IF HCO3 > normalRanges.HCO3.high THEN "alkalaemia"
          ELSE phStatus
     ELSE phStatus

\* variant: respiratory by default when neither component is abnormal
acidaemiaDisorder_respiratoryDefault(pCO2, HCO3) ==
  IF pCO2 > 450 THEN "respiratory_acidosis"
  ELSE IF HCO3 < 220 THEN "metabolic_acidosis"
  ELSE "respiratory_acidosis"

\* the branch taken for an effective status of acidaemia
acidaemiaDisorder(pCO2, HCO3) ==
  IF pCO2 > 450 THEN "respiratory_acidosis"
  ELSE IF HCO3 < 220 THEN "metabolic_acidosis"
  ELSE IF pCO2 > 450 /\ HCO3 < 220
  THEN IF 24 * (pCO2 - 400) > 40 * (240 - HCO3)
       THEN "respiratory_acidosis"
       ELSE "metabolic_acidosis"
  ELSE IF pCO2 > 450 THEN "respiratory_acidosis"
  ELSE "metabolic_acidosis"

\* variant: HCO3 looked at before pCO2
alkalaemiaDisorder_metabolicFirst(pCO2, HCO3) ==
  IF HCO3 > 260 THEN "metabolic_alkalosis"
  ELSE IF pCO2 < 350 THEN "respiratory_alkalosis"
  ELSE "metabolic_alkalosis"

\* the branch taken for an effective status of alkalaemia
alkalaemiaDisorder(pCO2, HCO3) ==
  IF pCO2 < 350 THEN "respiratory_alkalosis"
  ELSE IF HCO3 > 260 THEN "metabolic_alkalosis"
  ELSE IF pCO2 < 350 /\ HCO3 > 260
  THEN IF 24 * (400 - pCO2) > 40 * (HCO3 - 240)
       THEN "respiratory_alkalosis"
       ELSE "metabolic_alkalosis"
  ELSE IF pCO2 < 350 THEN "respiratory_alkalosis"
  ELSE "metabolic_alkalosis"

determinePrimaryDisorder(pH, pCO2, HCO3) ==
  IF isStrictNormal(pH, pCO2, HCO3) THEN "normal"
  ELSE LET eff == effectiveStatus(pH, pCO2, HCO3)
       IN IF eff = "acidaemia" THEN acidaemiaDisorder(pCO2, HCO3)
          ELSE IF eff = "alkalaemia" THEN alkalaemiaDisorder(pCO2, HCO3)
          ELSE "normal"

\* ------------------------------------------------------------- cause lookup
\* The cause lists of shared/schema.ts are named by their table path.
\* variant: the chronic list unless the chronicity is acute
getCausesForDisorder_chronicUnlessAcute(disorder, anionGapStatus, chronicity) ==
  CASE disorder = "respiratory_acidosis" ->
         IF chronicity = Some("acute")
         THEN "respiratoryAcidosisCauses.acute"
         ELSE "respiratoryAcidosisCauses.chronic"
    [] disorder = "metabolic_acidosis" ->
         IF anionGapStatus = Some("high")
         THEN "metabolicAcidosisCauses.highAGMA.causes"
         ELSE IF anionGapStatus = Some("low_negative")
         THEN "metabolicAcidosisCauses.lowNegativeAGMA"
         ELSE "metabolicAcidosisCauses.normalAGMA.causes"
    [] disorder = "respiratory_alkalosis" -> "respiratoryAlkalosisCauses.causes"
    [] disorder = "metabolic_alkalosis" -> "metabolicAlkalosisCauses.causes"
    [] OTHER -> "[]"

getCausesForDisorder(disorder, anionGapStatus, chronicity) ==
  CASE disorder = "respiratory_acidosis" ->
         IF chronicity = Some("chronic")
         THEN "respiratoryAcidosisCauses.chronic"
         ELSE "respiratoryAcidosisCauses.acute"
    [] disorder = "metabolic_acidosis" ->
         IF anionGapStatus = Some("high")
         THEN "metabolicAcidosisCauses.highAGMA.causes"
         ELSE IF anionGapStatus = Some("low_negative")
         THEN "metabolicAcidosisCauses.lowNegativeAGMA"
         ELSE "metabolicAcidosisCauses.normalAGMA.causes"
    [] disorder = "respiratory_alkalosis" -> "respiratoryAlkalosisCauses.causes"
    [] disorder = "metabolic_alkalosis" -> "metabolicAlkalosisCauses.causes"
    [] OTHER -> "[]"

formatDisorderName(disorder) ==
  CASE disorder = "respiratory_acidosis" -> "Respiratory Acidosis"
    [] disorder = "metabolic_acidosis" -> "Metabolic Acidosis"
    [] disorder = "respiratory_alkalosis" -> "Respiratory Alkalosis"
    [] disorder = "metabolic_alkalosis" -> "Metabolic Alkalosis"
    [] OTHER -> "Normal"

\* ------------------------------------------------------------- orchestrator
null == <<>>

\* variant: no text for a Winter's status of mixed_disorder
wintersSummary_noMixed(status) ==
  IF status = "appropriate" THEN "Compensated metabolic acidosis"
  ELSE IF status = "excessive"
  THEN "Metabolic acidosis with secondary respiratory alkalosis"
  ELSE IF status = "inadequate" THEN "Uncompensated metabolic acidosis"
  ELSE ""

\* the summary of a metabolic acidosis, before the anion-gap suffix
wintersSummary(status) ==
  IF status = "appropriate" THEN "Compensated metabolic acidosis"
  ELSE IF status = "excessive"
  THEN "Metabolic acidosis with secondary respiratory alkalosis"
  ELSE IF status = "inadequate" THEN "Uncompensated metabolic acidosis"
  ELSE "Combined Metabolic acidosis and respiratory acidosis"

\* the summary text assembled by interpretBloodGas; anionGap, wintersFormula,
\* deltaRatio and compensation are the optional sub-results
buildSummary(pH, pCO2, HCO3, primaryDisorder, anionGap, wintersFormula, deltaRatio, compensation) ==
  IF isStrictNormal(pH, pCO2, HCO3) THEN "No acid-base disturbance"
  ELSE IF primaryDisorder = "normal"
  THEN "Normal pH (Possible mixed disorder/compensated)"
  ELSE IF primaryDisorder = "metabolic_acidosis" /\ wintersFormula # undefined
  THEN LET base == wintersSummary(Val(wintersFormula).status)
           deltaText ==
             IF deltaRatio = undefined THEN ""
             ELSE IF Val(deltaRatio).status \in {"mixed_nagma_hagma", "pure_nagma_hagma"}
             THEN " with concurrent NAGMA"
             ELSE IF Val(deltaRatio).status = "hagma_metabolic_alkalosis"
             THEN " with concurrent metabolic alkalosis"
             ELSE ""
       IN IF anionGap = undefined THEN base
          ELSE IF Val(anionGap).status = "high" THEN base \o " - HAGMA" \o deltaText
          ELSE IF Val(anionGap).status = "normal" THEN base \o " - NAGMA"
          ELSE base \o " - Low/Negative AG"
  ELSE IF compensation # undefined
  THEN LET st == Val(compensation).status
       IN CASE primaryDisorder = "respiratory_acidosis" ->
                 (CASE st = "appropriate" -> "Compensated chronic Respiratory acidosis"
                    [] st = "excessive" -> "Primary RA with secondary M. alkalosis"
                    [] st = "inadequate" -> "Acute uncompensated Respiratory acidosis"
                    [] st = "mixed_disorder" ->
                         "Acute uncompensated RA with metabolic acidosis" \o
                         (IF anionGap = undefined THEN ""
                          ELSE IF Val(anionGap).status = "high" THEN " (HAGMA)"
                          ELSE " (NAGMA)")
                    [] OTHER -> "")
            [] primaryDisorder = "respiratory_alkalosis" ->
                 (CASE st = "appropriate" -> "Compensated chronic Respiratory Alkalosis"
                    [] st = "excessive" ->
                         "Primary Respiratory Alkalosis with secondary metabolic acidosis"
                    [] st = "inadequate" -> "Acute uncompensated Respiratory alkalosis"
                    [] st = "mixed_disorder" ->
                         "Combined respiratory alkalosis with metabolic alkalosis"
                    [] OTHER -> "")
            [] primaryDisorder = "metabolic_alkalosis" ->
                 (CASE st = "appropriate" -> "Compensated metabolic alkalosis"
                    [] st = "excessive" ->
                         "Primary metabolic alkalosis with secondary respiratory acidosis"
                    [] st = "inadequate" -> "Uncompensated metabolic alkalosis"
                    [] st = "mixed_disorder" ->
                         "Combined metabolic alkalosis & respiratory alkalosis"
                    [] OTHER -> "")
            [] OTHER -> ""
  ELSE formatDisorderName(primaryDisorder)

\* variant: Na required as well
missingRequired_withNa(inp) ==
  inp.pH = undefined \/ inp.pCO2 = undefined \/ inp.HCO3 = undefined
    \/ inp.Na = undefined

missingRequired(inp) ==
  inp.pH = undefined \/ inp.pCO2 = undefined \/ inp.HCO3 = undefined

\* variant: no anion gap for a normal pH status
anionGapWanted_acidosisOnly(primaryDisorder, phStatus) ==
  primaryDisorder = "metabolic_acidosis"

\* the test guarding the first anion-gap calculation
anionGapWanted(primaryDisorder, phStatus) ==
  primaryDisorder = "metabolic_acidosis" \/ phStatus = "normal"

\* variant: Cl required as well
osmolarGapWanted_withCl(inp) ==
  /\ inp.measuredOsmolality # undefined
  /\ inp.Na # undefined
  /\ inp.Cl # undefined
  /\ inp.glucose # undefined
  /\ inp.urea # undefined

\* the test guarding the osmolar-gap calculation
osmolarGapWanted(inp) ==
  /\ inp.measuredOsmolality # undefined
  /\ inp.Na # undefined
  /\ inp.glucose # undefined
  /\ inp.urea # undefined

\* variant: the raw gap handed to calculateDeltaRatio
deltaRatioOf_rawGap(anionGap, HCO3) ==
  calculateDeltaRatio(anionGap.value, HCO3)

\* the delta-ratio call made for an anion gap of status high
deltaRatioOf(anionGap, HCO3) ==
  calculateDeltaRatio(anionGap.correctedValue, HCO3)

\* variant: respiratory alkalosis left without a compensation analysis
compensationFor_noRespiratoryAlkalosis(primaryDisorder, pCO2, HCO3) ==
  IF primaryDisorder = "metabolic_alkalosis"
  THEN Some(calculateMetabolicAlkalosisCompensation(HCO3, pCO2))
  ELSE IF primaryDisorder = "respiratory_acidosis"
  THEN Some(calculateRespiratoryCompensation(primaryDisorder, pCO2, HCO3))
  ELSE undefined

\* the dispatch to the compensation analyzers (metabolic acidosis takes
\* Winter's formula instead)
compensationFor(primaryDisorder, pCO2, HCO3) ==
  IF primaryDisorder = "metabolic_alkalosis"
  THEN Some(calculateMetabolicAlkalosisCompensation(HCO3, pCO2))
  ELSE IF primaryDisorder \in {"respiratory_acidosis", "respiratory_alkalosis"}
  THEN Some(calculateRespiratoryCompensation(primaryDisorder, pCO2, HCO3))
  ELSE undefined

\* variant: the chronicity not handed to the cause lookup
causesFor_noChronicity(primaryDisorder, anionGap, compensation) ==
  getCausesForDisorder(
    primaryDisorder,
    IF anionGap = undefined THEN undefined ELSE Some(Val(anionGap).status),
    undefined)

\* the cause lookup made with anionGap?.status and compensation?.chronicity
causesFor(primaryDisorder, anionGap, compensation) ==
  getCausesForDisorder(
    primaryDisorder,
    IF anionGap = undefined THEN undefined ELSE Some(Val(anionGap).status),
    IF compensation = undefined THEN undefined
    ELSE Some(Val(compensation).chronicity))

interpretBloodGas(inp) ==
  IF missingRequired(inp)
  THEN null
  ELSE
    LET pH   == Val(inp.pH)
        pCO2 == Val(inp.pCO2)
        HCO3 == Val(inp.HCO3)
        phStatus == determinepHStatus(pH)
        primaryDisorder == determinePrimaryDisorder(pH, pCO2, HCO3)
        shouldCalculateAnionGap == inp.Na # undefined /\ inp.Cl # undefined
        anionGap0 ==
          IF shouldCalculateAnionGap /\ anionGapWanted(primaryDisorder, phStatus)
          THEN Some(calculateAnionGap(Val(inp.Na), Val(inp.Cl), HCO3, inp.albumin))
          ELSE undefined
        osmolarGap ==
          IF osmolarGapWanted(inp)
          THEN Some(calculateOsmolarGap(Val(inp.measuredOsmolality), Val(inp.Na),
                                        Val(inp.glucose), Val(inp.urea), inp.ethanol))
          ELSE undefined
        wintersFormula ==
          IF primaryDisorder = "metabolic_acidosis"
          THEN Some(calculateWintersFormula(HCO3, pCO2))
          ELSE undefined
        compensation == compensationFor(primaryDisorder, pCO2, HCO3)
        lateAnionGap ==
          /\ primaryDisorder \in {"respiratory_acidosis", "respiratory_alkalosis"}
          /\ compensation # undefined
          /\ Val(compensation).status = "mixed_disorder"
          /\ shouldCalculateAnionGap
          /\ anionGap0 = undefined
        anionGap ==
          IF lateAnionGap
          THEN Some(calculateAnionGap(Val(inp.Na), Val(inp.Cl), HCO3, inp.albumin))
          ELSE anionGap0
        deltaRatio ==
          IF primaryDisorder = "metabolic_acidosis"
          THEN IF shouldCalculateAnionGap /\ anionGap0 # undefined
                  /\ Val(anionGap0).status = "high"
               THEN Some(deltaRatioOf(Val(anionGap0), HCO3))
               ELSE undefined
          ELSE IF lateAnionGap /\ Val(anionGap).status = "high"
          THEN Some(deltaRatioOf(Val(anionGap), HCO3))
          ELSE undefined
        causes == causesFor(primaryDisorder, anionGap, compensation)
    IN Some([input              |-> inp,
             pHStatus           |-> phStatus,
             primaryDisorder    |-> primaryDisorder,
             anionGap           |-> anionGap,
             osmolarGap         |-> osmolarGap,
             wintersFormula     |-> wintersFormula,
             deltaRatio         |-> deltaRatio,
             compensation       |-> compensation,
             causes             |-> causes,
             secondaryDisorders |-> <<>>,
             summary            |->
               buildSummary(pH, pCO2, HCO3, primaryDisorder, anionGap,
                            wintersFormula, deltaRatio, compensation)])

\* ------------------------------------------------------------------- inputs
\* Values are taken within Spread steps of each threshold of the engine,
\* plus a few values far from every threshold.
Spread == 1

Near(c) == (c - Spread)..(c + Spread)

pHVals == Near(735) \cup Near(740) \cup Near(745)

pCO2Vals == Near(350) \cup Near(450) \cup {300, 360, 400, 460, 500, 600}

HCO3Vals == Near(220) \cup Near(240) \cup Near(260) \cup {100, 180, 200, 300}

NaVals == {1400}

ClVals == {1000, 1010, 1130}

albuminVals == {20, 36} \cup Near(40)

measuredVals == Near(3000) \cup {3100}

glucoseVals == {50}

ureaVals == {50}

ethanolVals == {0, 100}

pHFew == {734, 740, 746}

pCO2Few == {300, 400, 500}

HCO3Few == {180, 240, 300}

\* the gas grid, with a coarse choice of electrolytes
GasInputs ==
  [pH : Opt(pHVals), pCO2 : Opt(pCO2Vals), HCO3 : Opt(HCO3Vals),
   Na : Opt(NaVals), Cl : Opt({1000}), albumin : Opt({20}),
   measuredOsmolality : {undefined}, glucose : {undefined},
   urea : {undefined}, ethanol : {undefined}]

\* the electrolyte grid, with a coarse choice of pH and pCO2
ElectrolyteInputs ==
  [pH : {Some(x) : x \in pHFew}, pCO2 : {Some(x) : x \in pCO2Few},
   HCO3 : {Some(x) : x \in HCO3Vals},
   Na : Opt(NaVals), Cl : Opt(ClVals), albumin : Opt(albuminVals),
   measuredOsmolality : {undefined}, glucose : {undefined},
   urea : {undefined}, ethanol : {undefined}]

\* the osmolality grid, with a coarse choice of gases
OsmolalityInputs ==
  [pH : Opt(pHFew), pCO2 : {Some(400)}, HCO3 : Opt({180, 240}),
   Na : Opt(NaVals), Cl : Opt({1000}), albumin : {undefined},
   measuredOsmolality : Opt(measuredVals), glucose : Opt(glucoseVals),
   urea : Opt(ureaVals), ethanol : Opt(ethanolVals)]

\* every combination of present and absent fields
PresenceInputs ==
  [pH : Opt({734, 740}), pCO2 : Opt({400, 500}), HCO3 : Opt({180, 240}),
   Na : Opt(NaVals), Cl : Opt({1000}), albumin : Opt({20}),
   measuredOsmolality : Opt({3100}), glucose : Opt(glucoseVals),
   urea : Opt(ureaVals), ethanol : Opt({100})]

Inputs == GasInputs \cup ElectrolyteInputs \cup OsmolalityInputs \cup PresenceInputs

\* ------------------------------------------------------------ state machine
\* input is the BloodGasInput held by the caller; call names the function
\* invoked last, args holds the arguments it was given that are not fields of
\* input, and ret holds what it returned.  The engine keeps no state.
Init ==
  /\ input \in Inputs
  /\ call = "none"
  /\ args = <<>>
  /\ ret = undefined
  /\ currentStep = 1
  /\ interpretation = <<>>
  /\ firstCall = <<>>

InterpretBloodGas ==
  /\ call' = "interpretBloodGas"
  /\ ret' = interpretBloodGas(input)
  /\ args' = <<>>
  /\ UNCHANGED <<input, wizard>>

DeterminepHStatus ==
  /\ input.pH # undefined
  /\ call' = "determinepHStatus"
  /\ ret' = Some(determinepHStatus(Val(input.pH)))
  /\ args' = <<>>
  /\ UNCHANGED <<input, wizard>>

DeterminePrimaryDisorder ==
  /\ ~missingRequired(input)
  /\ call' = "determinePrimaryDisorder"
  /\ ret' = Some(determinePrimaryDisorder(Val(input.pH), Val(input.pCO2),
                                          Val(input.HCO3)))
  /\ args' = <<>>
  /\ UNCHANGED <<input, wizard>>

CalculateAnionGap ==
  /\ input.Na # undefined
  /\ input.Cl # undefined
  /\ input.HCO3 # undefined
  /\ call' = "calculateAnionGap"
  /\ ret' = Some(calculateAnionGap(Val(input.Na), Val(input.Cl),
                                   Val(input.HCO3), input.albumin))
  /\ args' = <<>>
  /\ UNCHANGED <<input, wizard>>

CalculateOsmolarGap ==
  /\ input.measuredOsmolality # undefined
  /\ input.Na # undefined
  /\ input.glucose # undefined
  /\ input.urea # undefined
  /\ call' = "calculateOsmolarGap"
  /\ ret' = Some(calculateOsmolarGap(Val(input.measuredOsmolality),
                                     Val(input.Na), Val(input.glucose),
                                     Val(input.urea), input.ethanol))
  /\ args' = <<>>
  /\ UNCHANGED <<input, wizard>>

CalculateWintersFormula ==
  /\ input.HCO3 # undefined
  /\ input.pCO2 # undefined
  /\ call' = "calculateWintersFormula"
  /\ ret' = Some(calculateWintersFormula(Val(input.HCO3), Val(input.pCO2)))
  /\ args' = <<>>
  /\ UNCHANGED <<input, wizard>>

CalculateMetabolicAlkalosisCompensation ==
  /\ input.HCO3 # undefined
  /\ input.pCO2 # undefined
  /\ call' = "calculateMetabolicAlkalosisCompensation"
  /\ ret' = Some(calculateMetabolicAlkalosisCompensation(Val(input.HCO3),
                                                         Val(input.pCO2)))
  /\ args' = <<>>
  /\ UNCHANGED <<input, wizard>>

CalculateRespiratoryCompensation ==
  /\ input.pCO2 # undefined
  /\ input.HCO3 # undefined
  /\ \E disorder \in {"respiratory_acidosis", "respiratory_alkalosis"} :
       /\ call' = "calculateRespiratoryCompensation"
       /\ args' = <<disorder>>
       /\ ret' = Some(calculateRespiratoryCompensation(disorder, Val(input.pCO2),
                                                       Val(input.HCO3)))
  /\ UNCHANGED <<input, wizard>>

\* anion gaps (hundredths) handed to calculateDeltaRatio
AnionGapVals == {800, 1280, 1360, 1600, 2000, 2400, 3000}

CalculateDeltaRatio ==
  /\ input.HCO3 # undefined
  /\ \E anionGap \in AnionGapVals :
       /\ call' = "calculateDeltaRatio"
       /\ args' = <<anionGap>>
       /\ ret' = Some(calculateDeltaRatio(anionGap, Val(input.HCO3)))
  /\ UNCHANGED <<input, wizard>>

Next ==
  \/ InterpretBloodGas
  \/ DeterminepHStatus
  \/ DeterminePrimaryDisorder
  \/ CalculateAnionGap
  \/ CalculateOsmolarGap
  \/ CalculateWintersFormula
  \/ CalculateMetabolicAlkalosisCompensation
  \/ CalculateRespiratoryCompensation
  \/ CalculateDeltaRatio

Spec == Init /\ [][Next]_vars

\* ------------------------------------------------- the cause lookup alone
\* getCausesForDisorder takes no field of a BloodGasInput: its three
\* arguments are drawn at the start and held in args.
Disorders ==
  {"normal", "respiratory_acidosis", "metabolic_acidosis",
   "respiratory_alkalosis", "metabolic_alkalosis", "unrecognised"}

AnionGapStatuses == {"high", "normal", "low_negative"}

Chronicities == {"acute", "chronic", "unknown"}

initialInput ==
  [pH |-> undefined, pCO2 |-> undefined, HCO3 |-> undefined,
   Na |-> undefined, Cl |-> undefined, albumin |-> undefined,
   measuredOsmolality |-> undefined, glucose |-> undefined,
   urea |-> undefined, ethanol |-> undefined]

LookupInit ==
  /\ input = initialInput
  /\ call = "none"
  /\ args \in Disorders \X Opt(AnionGapStatuses) \X Opt(Chronicities)
  /\ ret = undefined
  /\ currentStep = 1
  /\ interpretation = <<>>
  /\ firstCall = <<>>

GetCausesForDisorder ==
  /\ call' = "getCausesForDisorder"
  /\ ret' = Some(getCausesForDisorder(args[1], args[2], args[3]))
  /\ UNCHANGED <<input, args, wizard>>

LookupNext == GetCausesForDisorder

LookupSpec == LookupInit /\ [][LookupNext]_vars

\* ------------------------------------------------------------------ wizard
\* currentStep and input are the two useState cells of WizardProvider.
\* interpretation is what the last render derived from input; every handler
\* below ends with the render that follows its state update.  firstCall keeps
\* the first interpretation the wizard obtained, with the input it was given
\* and whether another input has been interpreted since.
\* call names the handler invoked last; for goToNextStep and goToPreviousStep
\* args holds the step their updater was handed (prev), for setCurrentStep
\* the step it was given.
WizardPH == {734, 735, 746}

WizardPCO2 == {300, 500}

WizardHCO3 == {180, 300}

\* what the form of step 1 submits
GasForms == [pH : Opt(WizardPH), pCO2 : Opt(WizardPCO2), HCO3 : Opt(WizardHCO3)]

\* what the form of step 2 submits: both electrolytes or neither
ElectrolyteForms ==
  {[Na |-> undefined, Cl |-> undefined], [Na |-> Some(1400), Cl |-> Some(1000)]}

\* { ...prev, ...updates }
merge(prev, updates) ==
  [f \in DOMAIN prev |-> IF f \in DOMAIN updates THEN updates[f] ELSE prev[f]]

\* variant: the last interpretation kept and handed out again for the same pH
interpretationOf_memoOnPH(inp) ==
  IF interpretation # null /\ Val(interpretation).input.pH = inp.pH
  THEN interpretation
  ELSE IF inp.pH # undefined /\ inp.pCO2 # undefined /\ inp.HCO3 # undefined
  THEN interpretBloodGas(inp)
  ELSE null

\* the interpretation derived on every render
interpretationOf(inp) ==
  IF inp.pH # undefined /\ inp.pCO2 # undefined /\ inp.HCO3 # undefined
  THEN interpretBloodGas(inp)
  ELSE null

\* variant: metabolic acidosis alone makes the step relevant
isAnionGapStepRelevant_acidosisOnly(inp, interp) ==
  IF inp.pH = undefined \/ inp.pCO2 = undefined \/ inp.HCO3 = undefined
  THEN TRUE
  ELSE interp # null /\ Val(interp).primaryDisorder = "metabolic_acidosis"

\* inp and interp are the input and the interpretation of the render that
\* created the callback
isAnionGapStepRelevant(inp, interp) ==
  IF inp.pH = undefined \/ inp.pCO2 = undefined \/ inp.HCO3 = undefined
  THEN TRUE
  ELSE LET phStatus == IF Val(inp.pH) < 735 THEN "acidaemia"
                       ELSE IF Val(inp.pH) > 745 THEN "alkalaemia"
                       ELSE "normal"
       IN IF phStatus = "normal" THEN TRUE
          ELSE IF interp # null /\ Val(interp).primaryDisorder = "metabolic_acidosis"
          THEN TRUE
          ELSE FALSE

Min(a, b) == IF a < b THEN a ELSE b

Max(a, b) == IF a > b THEN a ELSE b

\* the updater handed to setCurrentStep by goToNextStep
nextStepFrom(prev, inp, interp) ==
  LET nextStep == Min(prev + 1, 4)
  IN IF nextStep = 2 /\ ~isAnionGapStepRelevant(inp, interp) THEN 3 ELSE nextStep

\* the updater handed to setCurrentStep by goToPreviousStep
previousStepFrom(prev, inp, interp) ==
  LET prevStep == Max(prev - 1, 1)
  IN IF prevStep = 2 /\ ~isAnionGapStepRelevant(inp, interp) THEN 1 ELSE prevStep

\* the render that follows a state update
Render ==
  /\ interpretation' = interpretationOf(input')
  /\ firstCall' =
       IF firstCall = <<>>
       THEN IF interpretation' # null
            THEN Some([given |-> input', returned |-> interpretation',
                       between |-> FALSE])
            ELSE firstCall
       ELSE IF interpretation' # null /\ input' # Val(firstCall).given
       THEN Some([Val(firstCall) EXCEPT !.between = TRUE])
       ELSE firstCall

WizardInit ==
  /\ input = initialInput
  /\ currentStep = 1
  /\ interpretation = null
  /\ firstCall = <<>>
  /\ call = "none"
  /\ args = <<>>
  /\ ret = undefined

UpdateInput ==
  /\ \/ \E updates \in GasForms : input' = merge(input, updates)
     \/ \E updates \in ElectrolyteForms : input' = merge(input, updates)
  /\ call' = "updateInput"
  /\ args' = <<>>
  /\ UNCHANGED <<currentStep, ret>>
  /\ Render

GoToNextStep ==
  /\ currentStep' = nextStepFrom(currentStep, input, interpretation)
  /\ call' = "goToNextStep"
  /\ args' = <<currentStep>>
  /\ UNCHANGED <<input, ret>>
  /\ Render

GoToPreviousStep ==
  /\ currentStep' = previousStepFrom(currentStep, input, interpretation)
  /\ call' = "goToPreviousStep"
  /\ args' = <<currentStep>>
  /\ UNCHANGED <<input, ret>>
  /\ Render

Reset ==
  /\ currentStep' = 1
  /\ input' = initialInput
  /\ call' = "reset"
  /\ args' = <<>>
  /\ UNCHANGED ret
  /\ Render

SetCurrentStep ==
  /\ \E step \in 1..4 : currentStep' = step /\ args' = <<step>>
  /\ call' = "setCurrentStep"
  /\ UNCHANGED <<input, ret>>
  /\ Render

WizardNext ==
  \/ UpdateInput
  \/ GoToNextStep
  \/ GoToPreviousStep
  \/ Reset
  \/ SetCurrentStep

WizardSpec == WizardInit /\ [][WizardNext]_vars

\* =================================================================== claims
Gas(f) == Val(input[f])

Interpreted == call = "interpretBloodGas" /\ ret # null

AllNormal ==
  /\ 735 <= Gas("pH") /\ Gas("pH") <= 745
  /\ 350 <= Gas("pCO2") /\ Gas("pCO2") <= 450
  /\ 220 <= Gas("HCO3") /\ Gas("HCO3") <= 260

Acidoses == {"respiratory_acidosis", "metabolic_acidosis"}

Alkaloses == {"respiratory_alkalosis", "metabolic_alkalosis"}

\* C1: interpretBloodGas returns null exactly when pH, pCO2 or HCO3 is
\* absent; with all three present the result is an interpretation, whatever
\* other optional fields are present or absent.
C1_NullIffRequiredMissing ==
  call = "interpretBloodGas" =>
    /\ ret = null <=>
         (input.pH = undefined \/ input.pCO2 = undefined \/ input.HCO3 = undefined)
    /\ ret # null => Len(ret) = 1 /\ Val(ret).input = input

C1_Witness ==
  /\ call = "interpretBloodGas"
  /\ ret = null
  /\ input.pH # undefined /\ input.pCO2 # undefined /\ input.HCO3 = undefined
  /\ input.Na # undefined /\ input.Cl # undefined /\ input.albumin # undefined
  /\ input.measuredOsmolality # undefined /\ input.ethanol # undefined

\* C2: when pH, pCO2 and HCO3 are all inside their normal ranges (bounds
\* included) the interpretation has primaryDisorder "normal" and the summary
\* "No acid-base disturbance", whatever the other fields are.
C2_StrictNormal ==
  Interpreted /\ AllNormal =>
    /\ Val(ret).primaryDisorder = "normal"
    /\ Val(ret).summary = "No acid-base disturbance"

C2_Witness ==
  /\ Interpreted
  /\ Gas("pH") = 745 /\ Gas("pCO2") = 350 /\ Gas("HCO3") = 260
  /\ input.Na # undefined /\ input.Cl # undefined
  /\ Val(ret).primaryDisorder = "normal"

\* C3: for an input that is not strictly normal, determinePrimaryDisorder
\* returns an acidosis when pH < 7.40 and an alkalosis when pH > 7.40, also
\* when pH is inside 7.35-7.45 (pCO2 30, HCO3 18: metabolic_acidosis at
\* pH 7.39, respiratory_alkalosis at pH 7.41).
C3_LeaningByPH ==
  call = "determinePrimaryDisorder" /\ ~AllNormal =>
    /\ Gas("pH") < 740 => Val(ret) \in Acidoses
    /\ Gas("pH") > 740 => Val(ret) \in Alkaloses
    /\ Gas("pCO2") = 300 /\ Gas("HCO3") = 180 /\ Gas("pH") = 739
         => Val(ret) = "metabolic_acidosis"
    /\ Gas("pCO2") = 300 /\ Gas("HCO3") = 180 /\ Gas("pH") = 741
         => Val(ret) = "respiratory_alkalosis"

C3_Witness ==
  /\ call = "determinePrimaryDisorder"
  /\ Gas("pH") = 739 /\ Gas("pCO2") = 300 /\ Gas("HCO3") = 180
  /\ ret = Some("metabolic_acidosis")

\* C4: at pH exactly 7.40 and not strictly normal, pCO2 decides first
\* (pCO2 > 45 respiratory_acidosis, pCO2 < 35 respiratory_alkalosis, whatever
\* HCO3 is); only for 35 <= pCO2 <= 45 does HCO3 decide (HCO3 < 22
\* metabolic_acidosis, HCO3 > 26 metabolic_alkalosis).
C4_TieBreakRespiratoryFirst ==
  call = "determinePrimaryDisorder" /\ Gas("pH") = 740 /\ ~AllNormal =>
    /\ Gas("pCO2") > 450 => Val(ret) = "respiratory_acidosis"
    /\ Gas("pCO2") < 350 => Val(ret) = "respiratory_alkalosis"
    /\ 350 <= Gas("pCO2") /\ Gas("pCO2") <= 450 =>
         /\ Gas("HCO3") < 220 => Val(ret) = "metabolic_acidosis"
         /\ Gas("HCO3") > 260 => Val(ret) = "metabolic_alkalosis"

C4_Witness ==
  /\ call = "determinePrimaryDisorder"
  /\ Gas("pH") = 740 /\ Gas("pCO2") = 500 /\ Gas("HCO3") = 300
  /\ ret = Some("respiratory_acidosis")

\* C5: for an acidaemia-leaning input with pCO2 > 45 and HCO3 < 22,
\* determinePrimaryDisorder returns respiratory_acidosis when
\* (pCO2-40)/40 > (24-HCO3)/24 and metabolic_acidosis otherwise; for an
\* alkalaemia-leaning input with pCO2 < 35 and HCO3 > 26 it returns
\* respiratory_alkalosis when (40-pCO2)/40 > (HCO3-24)/24 and
\* metabolic_alkalosis otherwise.
C5_FractionalDeviation ==
  call = "determinePrimaryDisorder" /\ ~AllNormal =>
    LET eff == effectiveStatus(Gas("pH"), Gas("pCO2"), Gas("HCO3"))
    IN /\ eff = "acidaemia" /\ Gas("pCO2") > 450 /\ Gas("HCO3") < 220 =>
            Val(ret) = IF 24 * (Gas("pCO2") - 400) > 40 * (240 - Gas("HCO3"))
                       THEN "respiratory_acidosis"
                       ELSE "metabolic_acidosis"
       /\ eff = "alkalaemia" /\ Gas("pCO2") < 350 /\ Gas("HCO3") > 260 =>
            Val(ret) = IF 24 * (400 - Gas("pCO2")) > 40 * (Gas("HCO3") - 240)
                       THEN "respiratory_alkalosis"
                       ELSE "metabolic_alkalosis"

\* C6: determinepHStatus is acidaemia iff pH < 7.35, alkalaemia iff
\* pH > 7.45 and normal iff 7.35 <= pH <= 7.45, and the pHStatus of every
\* interpretation is this classification of the input pH.
C6_PHStatus ==
  /\ call = "determinepHStatus" =>
       /\ ret = Some("acidaemia") <=> Gas("pH") < 735
       /\ ret = Some("alkalaemia") <=> Gas("pH") > 745
       /\ ret = Some("normal") <=> (735 <= Gas("pH") /\ Gas("pH") <= 745)
  /\ Interpreted =>
       /\ Val(ret).pHStatus = "acidaemia" <=> Gas("pH") < 735
       /\ Val(ret).pHStatus = "alkalaemia" <=> Gas("pH") > 745
       /\ Val(ret).pHStatus = "normal" <=> (735 <= Gas("pH") /\ Gas("pH") <= 745)

C6_Witness ==
  /\ call = "determinepHStatus"
  /\ Gas("pH") = 735
  /\ ret = Some("normal")

\* C7: calculateAnionGap returns value = Na - (Cl + HCO3) and
\* correctedValue = value + 2.5*(4 - albumin) when albumin is supplied and
\* below 4, otherwise correctedValue = value; the correction is never
\* negative.
C7_AnionGapValues ==
  call = "calculateAnionGap" =>
    LET value == 10 * (Gas("Na") - (Gas("Cl") + Gas("HCO3")))
    IN /\ Val(ret).value = value
       /\ Val(ret).correctedValue =
            IF input.albumin # undefined /\ Gas("albumin") < 40
            THEN value + 25 * (40 - Gas("albumin"))
            ELSE value
       /\ Val(ret).correctedValue >= Val(ret).value

C7_Witness ==
  /\ call = "calculateAnionGap"
  /\ Gas("Na") = 1400 /\ Gas("Cl") = 1000 /\ Gas("HCO3") = 200
  /\ input.albumin = Some(20)
  /\ Val(ret).value = 2000
  /\ Val(ret).correctedValue = 2500

\* C8: the anion-gap status is decided on the albumin-corrected value: high
\* iff correctedValue > 16, low_negative iff correctedValue < 3, normal iff
\* 3 <= correctedValue <= 16.
C8_AnionGapStatus ==
  call = "calculateAnionGap" =>
    LET corrected == Val(ret).correctedValue
    IN /\ Val(ret).status = "high" <=> corrected > 1600
       /\ Val(ret).status = "low_negative" <=> corrected < 300
       /\ Val(ret).status = "normal" <=> (300 <= corrected /\ corrected <= 1600)

C8_Witness ==
  /\ call = "calculateAnionGap"
  /\ Val(ret).value <= 1600
  /\ Val(ret).correctedValue > 1600
  /\ Val(ret).status = "high"

\* C9: calculateOsmolarGap returns calculatedOsmolality = 2*Na + glucose +
\* urea, plus the ethanol value itself when ethanol is supplied and > 0;
\* gap = measuredOsmolality - calculatedOsmolality; isElevated iff gap > 10.
C9_OsmolarGap ==
  call = "calculateOsmolarGap" =>
    LET base == 2 * Gas("Na") + Gas("glucose") + Gas("urea")
        calc == IF input.ethanol # undefined /\ Gas("ethanol") > 0
                THEN base + Gas("ethanol")
                ELSE base
    IN /\ Val(ret).calculatedOsmolality = calc
       /\ Val(ret).gap = Gas("measuredOsmolality") - calc
       /\ Val(ret).isElevated <=> Val(ret).gap > 100

C9_Witness ==
  /\ call = "calculateOsmolarGap"
  /\ input.ethanol = Some(100)
  /\ Val(ret).calculatedOsmolality = 3000
  /\ Val(ret).gap = 100
  /\ ~Val(ret).isElevated

\* C10: calculateWintersFormula, with expected = 1.5*HCO3 + 8 and the band
\* [expected-2, expected+2], is appropriate iff actualPCO2 is inside the band,
\* excessive iff below it, inadequate iff above it and below 45, and
\* mixed_disorder iff above it and at least 45.
C10_WintersStatus ==
  call = "calculateWintersFormula" =>
    LET expected == 15 * Gas("HCO3") + 800
        low      == expected - 200
        high     == expected + 200
        actual   == 10 * Gas("pCO2")
        status   == Val(ret).status
    IN /\ status = "appropriate" <=> (low <= actual /\ actual <= high)
       /\ status = "excessive" <=> actual < low
       /\ status = "inadequate" <=> (actual > high /\ actual < 4500)
       /\ status = "mixed_disorder" <=> (actual > high /\ actual >= 4500)

\* C11: calculateMetabolicAlkalosisCompensation, with expected = 0.7*HCO3 + 20
\* and the band [expected-5, expected+5], is appropriate iff actualPCO2 is
\* inside the band, excessive iff above it, inadequate iff below it and at
\* least 35, mixed_disorder iff below it and under 35; chronicity is unknown.
C11_MetabolicAlkalosisStatus ==
  call = "calculateMetabolicAlkalosisCompensation" =>
    LET expected == 7 * Gas("HCO3") + 2000
        low      == expected - 500
        high     == expected + 500
        actual   == 10 * Gas("pCO2")
        status   == Val(ret).status
    IN /\ status = "appropriate" <=> (low <= actual /\ actual <= high)
       /\ status = "excessive" <=> actual > high
       /\ status = "inadequate" <=> (actual < low /\ actual >= 3500)
       /\ status = "mixed_disorder" <=> (actual < low /\ actual < 3500)
       /\ Val(ret).chronicity = "unknown"

C11_Witness ==
  /\ call = "calculateMetabolicAlkalosisCompensation"
  /\ Gas("HCO3") = 300 /\ Gas("pCO2") = 350
  /\ Val(ret).status = "inadequate"

\* C12: for respiratory acidosis, with E = 24 + (pCO2-40)/2.5,
\* calculateRespiratoryCompensation is appropriate/chronic iff
\* E-2 <= HCO3 <= E+2, excessive/chronic iff HCO3 > E+2, inadequate/acute iff
\* HCO3 < E-2 and HCO3 >= 22, mixed_disorder/acute iff HCO3 < E-2 and
\* HCO3 < 22; exactly one of the four cases applies.
C12_RespiratoryAcidosisStatus ==
  call = "calculateRespiratoryCompensation" /\ args = <<"respiratory_acidosis">> =>
    LET E      == 2400 + 4 * (Gas("pCO2") - 400)
        actual == 10 * Gas("HCO3")
        r      == Val(ret)
        cases  ==
          [appropriate    |-> E - 200 <= actual /\ actual <= E + 200,
           excessive      |-> actual > E + 200,
           inadequate     |-> actual < E - 200 /\ actual >= 2200,
           mixed_disorder |-> actual < E - 200 /\ actual < 2200]
    IN /\ (r.status = "appropriate" /\ r.chronicity = "chronic") <=> cases.appropriate
       /\ (r.status = "excessive" /\ r.chronicity = "chronic") <=> cases.excessive
       /\ (r.status = "inadequate" /\ r.chronicity = "acute") <=> cases.inadequate
       /\ (r.status = "mixed_disorder" /\ r.chronicity = "acute") <=> cases.mixed_disorder
       /\ Cardinality({c \in DOMAIN cases : cases[c]}) = 1

C12_Witness ==
  /\ call = "calculateRespiratoryCompensation"
  /\ args = <<"respiratory_acidosis">>
  /\ Gas("pCO2") = 500 /\ Gas("HCO3") = 220
  /\ Val(ret) = [status |-> "inadequate", chronicity |-> "acute"]

\* C13: for HCO3 # 24, calculateDeltaRatio returns
\* value = (anionGap - 12) / (24 - HCO3), with status pure_nagma_hagma iff
\* value < 0.4, mixed_nagma_hagma iff 0.4 <= value < 0.8, hagma iff
\* 0.8 <= value <= 2.0, hagma_metabolic_alkalosis iff value > 2.0; the four
\* ranges partition all values, negative ratios being pure_nagma_hagma.
C13_DeltaRatioStatus ==
  call = "calculateDeltaRatio" /\ Gas("HCO3") # 240 =>
    LET deltaAG   == args[1] - 1200
        deltaHCO3 == 10 * (240 - Gas("HCO3"))
        \* the ratio as n/d with d > 0
        n == IF deltaHCO3 < 0 THEN 0 - deltaAG ELSE deltaAG
        d == IF deltaHCO3 < 0 THEN 0 - deltaHCO3 ELSE deltaHCO3
        r == Val(ret)
    IN /\ r.value.den # 0
       /\ r.value.num * deltaHCO3 = deltaAG * r.value.den
       /\ r.status = "pure_nagma_hagma" <=> 10 * n < 4 * d
       /\ r.status = "mixed_nagma_hagma" <=> (4 * d <= 10 * n /\ 10 * n < 8 * d)
       /\ r.status = "hagma" <=> (8 * d <= 10 * n /\ n <= 2 * d)
       /\ r.status = "hagma_metabolic_alkalosis" <=> n > 2 * d
       /\ n < 0 => r.status = "pure_nagma_hagma"

C13_Witness ==
  /\ call = "calculateDeltaRatio"
  /\ args = <<2000>>
  /\ Gas("HCO3") = 300
  /\ Val(ret).status = "pure_nagma_hagma"

\* C14: when HCO3 = 24 calculateDeltaRatio does not divide and returns
\* status hagma and value 0 for every anionGap, so the returned value is
\* always a finite number.
C14_DeltaRatioZeroDenominator ==
  call = "calculateDeltaRatio" =>
    /\ Val(ret).value.den # 0
    /\ Gas("HCO3") = 240 =>
         /\ Val(ret).status = "hagma"
         /\ Val(ret).value.num = 0

C14_Witness ==
  /\ call = "calculateDeltaRatio"
  /\ args = <<2400>>
  /\ Gas("HCO3") = 240
  /\ Val(ret).status = "hagma"
  /\ Val(ret).value.num = 0

Result == Val(ret)

Respiratory == {"respiratory_acidosis", "respiratory_alkalosis"}

\* the anion gap of the input as the claims state it (hundredths)
RawGap == 10 * (Gas("Na") - (Gas("Cl") + Gas("HCO3")))

CorrectedGap ==
  IF input.albumin # undefined /\ Gas("albumin") < 40
  THEN RawGap + 25 * (40 - Gas("albumin"))
  ELSE RawGap

AnionGapAsClaimed ==
  /\ Val(Result.anionGap).value = RawGap
  /\ Val(Result.anionGap).correctedValue = CorrectedGap
  /\ Val(Result.anionGap).status =
       IF CorrectedGap > 1600 THEN "high"
       ELSE IF CorrectedGap < 300 THEN "low_negative"
       ELSE "normal"

\* C15 (as stated): the anionGap of an interpretation is present iff Na and
\* Cl are both supplied and (primaryDisorder = metabolic_acidosis or
\* pHStatus = normal); when present it is calculateAnionGap(Na, Cl, HCO3,
\* albumin).
C15_AnionGapPresence ==
  Interpreted =>
    /\ Result.anionGap # undefined <=>
         /\ input.Na # undefined /\ input.Cl # undefined
         /\ \/ Result.primaryDisorder = "metabolic_acidosis"
            \/ Result.pHStatus = "normal"
    /\ Result.anionGap # undefined => AnionGapAsClaimed

\* C15 (amended): the anionGap of an interpretation is present iff Na and Cl
\* are both supplied and (primaryDisorder = metabolic_acidosis, or
\* pHStatus = normal, or the primary disorder is respiratory with
\* compensation status mixed_disorder); when present it is
\* calculateAnionGap(Na, Cl, HCO3, albumin).
C15_AnionGapPresenceAmended ==
  Interpreted =>
    /\ Result.anionGap # undefined <=>
         /\ input.Na # undefined /\ input.Cl # undefined
         /\ \/ Result.primaryDisorder = "metabolic_acidosis"
            \/ Result.pHStatus = "normal"
            \/ /\ Result.primaryDisorder \in Respiratory
               /\ Val(Result.compensation).status = "mixed_disorder"
    /\ Result.anionGap # undefined => AnionGapAsClaimed

C15_Witness ==
  /\ Interpreted
  /\ Result.primaryDisorder = "respiratory_acidosis"
  /\ Result.pHStatus = "acidaemia"
  /\ Val(Result.compensation).status = "mixed_disorder"
  /\ Result.anionGap # undefined

\* C16: a deltaRatio is present only if an anionGap is present with status
\* high, and it is computed from the albumin-corrected gap and HCO3, never
\* from the raw gap.
C16_DeltaRatioFromCorrectedGap ==
  Interpreted /\ Result.deltaRatio # undefined =>
    /\ Result.anionGap # undefined
    /\ Val(Result.anionGap).status = "high"
    /\ LET deltaAG   == CorrectedGap - 1200
           deltaHCO3 == 10 * (240 - Gas("HCO3"))
           value     == Val(Result.deltaRatio).value
       IN IF deltaHCO3 = 0
          THEN value.num = 0
          ELSE value.den # 0 /\ value.num * deltaHCO3 = deltaAG * value.den

C16_Witness ==
  /\ Interpreted
  /\ Result.deltaRatio # undefined
  /\ Val(Result.anionGap).value # Val(Result.anionGap).correctedValue
  /\ Val(Result.anionGap).value <= 1600

\* C17: wintersFormula is present iff primaryDisorder = metabolic_acidosis
\* (also without Na or Cl); compensation is present iff primaryDisorder is
\* metabolic_alkalosis, respiratory_acidosis or respiratory_alkalosis, from
\* the analyzer of that disorder; never both, and neither for normal.
C17_CompensationDispatch ==
  Interpreted =>
    LET pd == Result.primaryDisorder
    IN /\ Result.wintersFormula # undefined <=> pd = "metabolic_acidosis"
       /\ Result.compensation # undefined <=>
            pd \in {"metabolic_alkalosis", "respiratory_acidosis", "respiratory_alkalosis"}
       /\ pd = "metabolic_acidosis" =>
            Result.wintersFormula =
              Some(calculateWintersFormula(Gas("HCO3"), Gas("pCO2")))
       /\ pd = "metabolic_alkalosis" =>
            Result.compensation =
              Some(calculateMetabolicAlkalosisCompensation(Gas("HCO3"), Gas("pCO2")))
       /\ pd \in Respiratory =>
            Result.compensation =
              Some(calculateRespiratoryCompensation(pd, Gas("pCO2"), Gas("HCO3")))
       /\ ~(Result.wintersFormula # undefined /\ Result.compensation # undefined)
       /\ pd = "normal" =>
            Result.wintersFormula = undefined /\ Result.compensation = undefined

C17_Witness ==
  /\ Interpreted
  /\ input.Na = undefined /\ input.Cl = undefined
  /\ Result.primaryDisorder = "metabolic_acidosis"
  /\ Result.wintersFormula # undefined
  /\ Result.compensation = undefined

\* C18: whenever the Winter's-formula status or the compensation status of an
\* interpretation is excessive or inadequate, secondaryDisorders is not empty
\* (it names the matching concurrent disorder).
C18_SecondaryDisorders ==
  Interpreted =>
    LET flagged(o) == o # undefined /\ Val(o).status \in {"excessive", "inadequate"}
    IN flagged(Result.wintersFormula) \/ flagged(Result.compensation) =>
         Result.secondaryDisorders # <<>>

\* C19: at pH exactly 7.40, a primary respiratory_acidosis has a
\* secondaryDisorders entry naming metabolic alkalosis and a primary
\* respiratory_alkalosis one naming metabolic acidosis.
C19_SecondaryAtPH740 ==
  Interpreted /\ Gas("pH") = 740 =>
    LET names(t) ==
          \E i \in DOMAIN Result.secondaryDisorders :
            Result.secondaryDisorders[i] = t
    IN /\ Result.primaryDisorder = "respiratory_acidosis" =>
            names("Concurrent metabolic alkalosis")
       /\ Result.primaryDisorder = "respiratory_alkalosis" =>
            names("Concurrent metabolic acidosis")

\* C20: osmolarGap is present iff measuredOsmolality, Na, glucose and urea
\* are all supplied, whatever the primary disorder, the pH status and the
\* presence of Cl or ethanol; when present it is calculateOsmolarGap of those
\* values and the optional ethanol.
C20_OsmolarGapPresence ==
  Interpreted =>
    /\ Result.osmolarGap # undefined <=>
         /\ input.measuredOsmolality # undefined
         /\ input.Na # undefined
         /\ input.glucose # undefined
         /\ input.urea # undefined
    /\ Result.osmolarGap # undefined =>
         LET base == 2 * Gas("Na") + Gas("glucose") + Gas("urea")
             calc == IF input.ethanol # undefined /\ Gas("ethanol") > 0
                     THEN base + Gas("ethanol")
                     ELSE base
             og   == Val(Result.osmolarGap)
         IN /\ og.calculatedOsmolality = calc
            /\ og.measuredOsmolality = Gas("measuredOsmolality")
            /\ og.gap = Gas("measuredOsmolality") - calc
            /\ og.isElevated <=> og.gap > 100

C20_Witness ==
  /\ Interpreted
  /\ input.Cl = undefined /\ input.ethanol = undefined
  /\ Result.pHStatus = "acidaemia"
  /\ Result.osmolarGap # undefined
  /\ Val(Result.osmolarGap).isElevated

C22_CauseLookup ==
  call = "getCausesForDisorder" =>
    LET disorder       == args[1]
        anionGapStatus == args[2]
        chronicity     == args[3]
        causes         == Val(ret)
    IN /\ disorder \in {"normal", "unrecognised"} => causes = "[]"
       /\ disorder = "respiratory_acidosis" =>
            /\ causes = "respiratoryAcidosisCauses.chronic" <=> chronicity = <<"chronic">>
            /\ causes = "respiratoryAcidosisCauses.acute" <=> chronicity # <<"chronic">>
       /\ disorder = "metabolic_acidosis" =>
            /\ causes = "metabolicAcidosisCauses.highAGMA.causes" <=>
                 anionGapStatus = <<"high">>
            /\ causes = "metabolicAcidosisCauses.lowNegativeAGMA" <=>
                 anionGapStatus = <<"low_negative">>
            /\ anionGapStatus \in {<<"normal">>, <<>>} =>
                 causes = "metabolicAcidosisCauses.normalAGMA.causes"
       /\ disorder = "respiratory_alkalosis" =>
            causes = "respiratoryAlkalosisCauses.causes"
       /\ disorder = "metabolic_alkalosis" =>
            causes = "metabolicAlkalosisCauses.causes"

C22_Witness ==
  /\ call = "getCausesForDisorder"
  /\ args = <<"respiratory_acidosis", <<"high">>, <<"unknown">>>>
  /\ ret = <<"respiratoryAcidosisCauses.acute">>

\* C23: for respiratory alkalosis, with E = 24 - (40 - pCO2)/2,
\* calculateRespiratoryCompensation returns mixed_disorder only when
\* HCO3 > 26; an HCO3 above E + 2 that is not above 26 is inadequate with
\* chronicity acute.
C23_RespiratoryAlkalosisStatus ==
  call = "calculateRespiratoryCompensation" /\ args = <<"respiratory_alkalosis">> =>
    LET chronicHigh == 2400 - 5 * (400 - Gas("pCO2")) + 200
    IN /\ Val(ret).status = "mixed_disorder" => Gas("HCO3") > 260
       /\ 10 * Gas("HCO3") > chronicHigh /\ Gas("HCO3") <= 260 =>
            Val(ret).status = "inadequate" /\ Val(ret).chronicity = "acute"

\* C24: for a respiratory primary disorder with compensation status
\* mixed_disorder and Na and Cl supplied, the interpretation has an anion
\* gap, and whenever its status is high also a delta ratio computed from the
\* corrected gap, at every pH, normal pH included.
C24_MixedRespiratoryAnionGap ==
  /\ Interpreted
  /\ Result.primaryDisorder \in Respiratory
  /\ Val(Result.compensation).status = "mixed_disorder"
  /\ input.Na # undefined /\ input.Cl # undefined
  => /\ Result.anionGap # undefined
     /\ Val(Result.anionGap).status = "high" =>
          /\ Result.deltaRatio # undefined
          /\ Val(Result.deltaRatio) =
               calculateDeltaRatio(Val(Result.anionGap).correctedValue, Gas("HCO3"))

\* C25: determinePrimaryDisorder returns normal if and only if pH, pCO2 and
\* HCO3 are all within their normal ranges (bounds included); so its final
\* fall-through return is never reached and no interpretation has the
\* summary "Normal pH (Possible mixed disorder/compensated)".
C25_NormalIffStrictNormal ==
  /\ call = "determinePrimaryDisorder" => (Val(ret) = "normal" <=> AllNormal)
  /\ Interpreted =>
       /\ Result.primaryDisorder = "normal" <=> AllNormal
       /\ Result.summary # "Normal pH (Possible mixed disorder/compensated)"

C25_Witness ==
  /\ call = "determinePrimaryDisorder"
  /\ Gas("pH") = 740 /\ Gas("pCO2") = 400 /\ Gas("HCO3") = 261
  /\ ret = Some("metabolic_alkalosis")

\* the direction of an input that is not strictly normal: by pH below or
\* above 7.40, at pH 7.40 by pCO2 and then by HCO3
AcidaemiaLeaning ==
  /\ ~AllNormal
  /\ \/ Gas("pH") < 740
     \/ /\ Gas("pH") = 740
        /\ \/ Gas("pCO2") > 450
           \/ Gas("pCO2") >= 350 /\ Gas("HCO3") < 220

AlkalaemiaLeaning ==
  /\ ~AllNormal
  /\ \/ Gas("pH") > 740
     \/ /\ Gas("pH") = 740
        /\ \/ Gas("pCO2") < 350
           \/ Gas("pCO2") <= 450 /\ Gas("HCO3") > 260

\* C26: once the direction is fixed, determinePrimaryDisorder splits on pCO2
\* alone: respiratory_acidosis only if pCO2 > 45, respiratory_alkalosis only
\* if pCO2 < 35; every acidaemia-leaning input with pCO2 <= 45 is
\* metabolic_acidosis and every alkalaemia-leaning input with pCO2 >= 35 is
\* metabolic_alkalosis, also with HCO3 within 22-26.
C26_SplitByPCO2 ==
  call = "determinePrimaryDisorder" =>
    /\ Val(ret) = "respiratory_acidosis" => Gas("pCO2") > 450
    /\ Val(ret) = "respiratory_alkalosis" => Gas("pCO2") < 350
    /\ AcidaemiaLeaning =>
         Val(ret) = IF Gas("pCO2") > 450 THEN "respiratory_acidosis"
                    ELSE "metabolic_acidosis"
    /\ AlkalaemiaLeaning =>
         Val(ret) = IF Gas("pCO2") < 350 THEN "respiratory_alkalosis"
                    ELSE "metabolic_alkalosis"

C26_Witness ==
  /\ call = "determinePrimaryDisorder"
  /\ Gas("pH") = 734 /\ Gas("pCO2") = 400 /\ Gas("HCO3") = 240
  /\ ret = Some("metabolic_acidosis")

\* C27: in an interpretation, a primary disorder of metabolic_alkalosis has
\* pCO2 >= 35 and so never the compensation status mixed_disorder; the
\* summary "Combined metabolic alkalosis & respiratory alkalosis" is never
\* produced.
C27_NoMixedMetabolicAlkalosis ==
  Interpreted =>
    /\ Result.primaryDisorder = "metabolic_alkalosis" =>
         /\ Gas("pCO2") >= 350
         /\ Val(Result.compensation).status # "mixed_disorder"
    /\ Result.summary # "Combined metabolic alkalosis & respiratory alkalosis"

C27_Witness ==
  /\ Interpreted
  /\ Result.primaryDisorder = "metabolic_alkalosis"
  /\ Gas("pCO2") = 350
  /\ Val(Result.compensation).status = "inadequate"
  /\ Result.summary = "Uncompensated metabolic alkalosis"

\* C28: for a primary respiratory_acidosis the interpretation carries the
\* chronic cause list exactly when HCO3 >= 24 + (pCO2 - 40)/2.5 - 2
\* (compensation appropriate or excessive, chronicity chronic) and the acute
\* list otherwise (inadequate or mixed_disorder, chronicity acute); the
\* chronicity of a respiratory disorder is never unknown.
C28_RespiratoryAcidosisCauses ==
  Interpreted =>
    /\ Result.primaryDisorder = "respiratory_acidosis" =>
         LET chronic == 10 * Gas("HCO3") >= 2400 + 4 * (Gas("pCO2") - 400) - 200
             comp    == Val(Result.compensation)
         IN /\ Result.causes = IF chronic THEN "respiratoryAcidosisCauses.chronic"
                               ELSE "respiratoryAcidosisCauses.acute"
            /\ chronic => /\ comp.status \in {"appropriate", "excessive"}
                          /\ comp.chronicity = "chronic"
            /\ ~chronic => /\ comp.status \in {"inadequate", "mixed_disorder"}
                           /\ comp.chronicity = "acute"
    /\ Result.primaryDisorder \in Respiratory =>
         Val(Result.compensation).chronicity \in {"chronic", "acute"}

C28_Witness ==
  /\ Interpreted
  /\ Result.primaryDisorder = "respiratory_acidosis"
  /\ Val(Result.compensation).status = "excessive"
  /\ Result.causes = "respiratoryAcidosisCauses.chronic"

\* the summary texts of a metabolic acidosis: a text for the Winter's status,
\* then nothing or the anion-gap suffix
MetabolicAcidosisTexts ==
  {base \o suffix :
     base \in {"Compensated metabolic acidosis",
               "Metabolic acidosis with secondary respiratory alkalosis",
               "Uncompensated metabolic acidosis",
               "Combined Metabolic acidosis and respiratory acidosis"},
     suffix \in {"", " - HAGMA", " - HAGMA with concurrent NAGMA",
                 " - HAGMA with concurrent metabolic alkalosis",
                 " - NAGMA", " - Low/Negative AG"}}

RespiratoryAcidosisTexts ==
  {"Compensated chronic Respiratory acidosis",
   "Primary RA with secondary M. alkalosis",
   "Acute uncompensated Respiratory acidosis",
   "Acute uncompensated RA with metabolic acidosis",
   "Acute uncompensated RA with metabolic acidosis (HAGMA)",
   "Acute uncompensated RA with metabolic acidosis (NAGMA)"}

RespiratoryAlkalosisTexts ==
  {"Compensated chronic Respiratory Alkalosis",
   "Primary Respiratory Alkalosis with secondary metabolic acidosis",
   "Acute uncompensated Respiratory alkalosis",
   "Combined respiratory alkalosis with metabolic alkalosis"}

MetabolicAlkalosisTexts ==
  {"Compensated metabolic alkalosis",
   "Primary metabolic alkalosis with secondary respiratory acidosis",
   "Uncompensated metabolic alkalosis",
   "Combined metabolic alkalosis & respiratory alkalosis"}

BareDisorderNames ==
  {"Normal", "Respiratory Acidosis", "Metabolic Acidosis",
   "Respiratory Alkalosis", "Metabolic Alkalosis"}

NeitherAnalysis ==
  Result.wintersFormula = undefined /\ Result.compensation = undefined

\* C29 (as stated): every interpretation has a non-empty summary, and when
\* neither a Winter's result nor a compensation result exists the summary is
\* the fallback, the bare name of the disorder.
C29_Summary ==
  Interpreted =>
    /\ Result.summary # ""
    /\ NeitherAnalysis => Result.summary \in BareDisorderNames

\* C29 (amended): every interpretation has a non-empty summary, one of the
\* fixed texts of its primary disorder; neither a Winter's result nor a
\* compensation result exists exactly when the primary disorder is normal,
\* and the summary is then "No acid-base disturbance"; the fallback to the
\* bare disorder name is never taken.
C29_SummaryAmended ==
  Interpreted =>
    LET pd == Result.primaryDisorder
    IN /\ Result.summary # ""
       /\ NeitherAnalysis <=> pd = "normal"
       /\ NeitherAnalysis => Result.summary = "No acid-base disturbance"
       /\ pd = "metabolic_acidosis" => Result.summary \in MetabolicAcidosisTexts
       /\ pd = "respiratory_acidosis" => Result.summary \in RespiratoryAcidosisTexts
       /\ pd = "respiratory_alkalosis" => Result.summary \in RespiratoryAlkalosisTexts
       /\ pd = "metabolic_alkalosis" => Result.summary \in MetabolicAlkalosisTexts
       /\ Result.summary \notin BareDisorderNames

C29_Witness ==
  /\ Interpreted
  /\ NeitherAnalysis
  /\ input.Na = undefined
  /\ Result.primaryDisorder = "normal"
  /\ Result.summary = "No acid-base disturbance"

\* step 2 (anion gap) is not relevant: pH, pCO2 and HCO3 are all entered,
\* the pH status is not normal and the primary disorder is not
\* metabolic_acidosis
StepTwoNotRelevant ==
  /\ input.pH # undefined /\ input.pCO2 # undefined /\ input.HCO3 # undefined
  /\ determinepHStatus(Gas("pH")) # "normal"
  /\ determinePrimaryDisorder(Gas("pH"), Gas("pCO2"), Gas("HCO3")) # "metabolic_acidosis"

\* C30: the wizard keeps currentStep within 1..4; goToNextStep and
\* goToPreviousStep never land on step 2 while it is not relevant:
\* goToNextStep from step 1 then goes to step 3 and goToPreviousStep from
\* step 3 to step 1; otherwise each moves by exactly one step, clamped at 4
\* and at 1; reset goes to step 1.
C30_WizardNavigation ==
  /\ currentStep \in 1..4
  /\ call \in {"goToNextStep", "goToPreviousStep"} /\ currentStep = 2 =>
       ~StepTwoNotRelevant
  /\ call = "goToNextStep" =>
       currentStep = IF args[1] = 1 /\ StepTwoNotRelevant THEN 3
                     ELSE IF args[1] = 4 THEN 4
                     ELSE args[1] + 1
  /\ call = "goToPreviousStep" =>
       currentStep = IF args[1] = 3 /\ StepTwoNotRelevant THEN 1
                     ELSE IF args[1] = 1 THEN 1
                     ELSE args[1] - 1
  /\ call = "reset" => currentStep = 1

C30_Witness ==
  /\ call = "goToNextStep"
  /\ args = <<1>>
  /\ currentStep = 3
  /\ StepTwoNotRelevant
  /\ Gas("pH") = 746

====
